---------------------------- MODULE Spec2Model ----------------------------
(***************************************************************************)
(* libc-strftime (src/src/lib.rs): a wrapper around the C library's        *)
(* tzset / setlocale / localtime_r / gmtime_r / strftime.                  *)
(*                                                                         *)
(* The wrapper's own code is modelled statement by statement.  The C       *)
(* routines it binds (mod c, lib.rs 25-47, and libc::setlocale, lib.rs 96) *)
(* are modelled by what the glibc build the crate documents (lib.rs 1) and *)
(* its tests assert (lib.rs 132-156) does: strftime(3), mktime(3),         *)
(* tzset(3), setlocale(3).  Text is a sequence of bytes (0..255) before    *)
(* decoding and a sequence of code points after it.                        *)
(***************************************************************************)
EXTENDS Integers, Sequences, FiniteSets, TLC

\* ------------------------------------------------------------------ bounds
\* The longest format of the input set is "%c" repeated MaxRepeat times.
MaxRepeat == 4
\* A reload (set_locale / tzset) is repeated at most MaxReloads times
\* between two changes of the environment variable it reads.
MaxReloads == 2
\* The threads that call into the library at the same time.
NThreads == 2

\* --------------------------------------------------------- program constants
\* let buf = [0_u8; 100];
BUF_LEN == 100
\* U+FFFD REPLACEMENT CHARACTER, what from_utf8_lossy substitutes
REPLACEMENT == 65533
\* CString's terminator, and the byte CString::new rejects inside the text
NUL == 0
\* '%' introduces a conversion in the format
PCT == 37

\* ------------------------------------------------------------- byte helpers
RECURSIVE Repeat(_, _)
Repeat(s, k) == IF k = 0 THEN <<>> ELSE s \o Repeat(s, k - 1)

Zeros(n) == [i \in 1..n |-> 0]

Digit(d) == 48 + d

\* a number as two decimal digits, zero padded ("%02d")
Dec2(n) == <<Digit((n \div 10) % 10), Digit(n % 10)>>

\* a number as two characters, space padded ("%2d")
Spc2(n) == <<IF n < 10 THEN 32 ELSE Digit(n \div 10), Digit(n % 10)>>

RECURSIVE DecNat(_)
DecNat(n) == IF n < 10 THEN <<Digit(n)>> ELSE DecNat(n \div 10) \o <<Digit(n % 10)>>

\* a signed number in decimal ("%d")
Dec(n) == IF n < 0 THEN <<45>> \o DecNat(-n) ELSE DecNat(n)

\* --------------------------------------------------- the C library's locales
\* The locale the C runtime starts in, and the locales LC_ALL can name.
StartLocale == "C"
EnvLocales == {"en_US.UTF-8", "fr_BE.UTF-8", "fr_BE.ISO-8859-1"}
Locales == {StartLocale} \cup EnvLocales

EnDays ==
    << <<83, 117, 110>>, <<77, 111, 110>>, <<84, 117, 101>>, <<87, 101, 100>>,
       <<84, 104, 117>>, <<70, 114, 105>>, <<83, 97, 116>> >>
       \* Sun Mon Tue Wed Thu Fri Sat
EnMonths ==
    << <<74, 97, 110>>, <<70, 101, 98>>, <<77, 97, 114>>, <<65, 112, 114>>,
       <<77, 97, 121>>, <<74, 117, 110>>, <<74, 117, 108>>, <<65, 117, 103>>,
       <<83, 101, 112>>, <<79, 99, 116>>, <<78, 111, 118>>, <<68, 101, 99>> >>
       \* Jan Feb Mar Apr May Jun Jul Aug Sep Oct Nov Dec
FrDays ==
    << <<100, 105, 109>>, <<108, 117, 110>>, <<109, 97, 114>>, <<109, 101, 114>>,
       <<106, 101, 117>>, <<118, 101, 110>>, <<115, 97, 109>> >>
       \* dim lun mar mer jeu ven sam
FrMonthsUtf8 ==
    << <<106, 97, 110>>, <<102, 195, 169, 118>>, <<109, 97, 114>>, <<97, 118, 114>>,
       <<109, 97, 105>>, <<106, 117, 110>>, <<106, 117, 105>>, <<97, 111, 195, 187>>,
       <<115, 101, 112>>, <<111, 99, 116>>, <<110, 111, 118>>, <<100, 195, 169, 99>> >>
       \* jan fév mar avr mai jun jui aoû sep oct nov déc, UTF-8
FrMonthsLatin1 ==
    << <<106, 97, 110>>, <<102, 233, 118>>, <<109, 97, 114>>, <<97, 118, 114>>,
       <<109, 97, 105>>, <<106, 117, 110>>, <<106, 117, 105>>, <<97, 111, 251>>,
       <<115, 101, 112>>, <<111, 99, 116>>, <<110, 111, 118>>, <<100, 233, 99>> >>
       \* the same names in ISO-8859-1: é = 233, û = 251

\* LC_TIME of a locale: abday, abmon, am_pm, d_t_fmt (what %c expands to)
LC_TIME(loc) ==
    CASE loc = "en_US.UTF-8" ->
           [abday |-> EnDays, abmon |-> EnMonths,
            am_pm |-> << <<65, 77>>, <<80, 77>> >>,
            \* "%a %d %b %Y %r %Z"
            d_t_fmt |-> <<37, 97, 32, 37, 100, 32, 37, 98, 32, 37, 89, 32, 37, 114, 32, 37, 90>>]
      [] loc = "fr_BE.UTF-8" ->
           [abday |-> FrDays, abmon |-> FrMonthsUtf8,
            am_pm |-> << <<>>, <<>> >>,
            \* "%a %d %b %Y %T %Z"
            d_t_fmt |-> <<37, 97, 32, 37, 100, 32, 37, 98, 32, 37, 89, 32, 37, 84, 32, 37, 90>>]
      [] loc = "fr_BE.ISO-8859-1" ->
           [abday |-> FrDays, abmon |-> FrMonthsLatin1,
            am_pm |-> << <<>>, <<>> >>,
            d_t_fmt |-> <<37, 97, 32, 37, 100, 32, 37, 98, 32, 37, 89, 32, 37, 84, 32, 37, 90>>]
      [] OTHER ->
           [abday |-> EnDays, abmon |-> EnMonths,
            am_pm |-> << <<65, 77>>, <<80, 77>> >>,
            \* "%a %b %e %H:%M:%S %Y"
            d_t_fmt |-> <<37, 97, 32, 37, 98, 32, 37, 101, 32, 37, 72, 58, 37, 77, 58,
                          37, 83, 32, 37, 89>>]

\* ------------------------------------------------ the C library's time zones
\* The zones TZ can name.  A zone is its transition table over the epochs of
\* the model: the UTC instants at which daylight saving starts and ends, and
\* the offset and abbreviation on either side.
EnvZones == {"UTC", "Europe/Brussels", "America/New_York"}
\* the zone state before the first activation
Uninit == "uninit"
ZoneStates == {Uninit} \cup EnvZones

TZDB(name) ==
    CASE name = "Europe/Brussels" ->
           \* 2019-03-31T01:00Z .. 2019-10-27T01:00Z: CEST, otherwise CET
           [dst_from |-> 1553994000, dst_to |-> 1572138000,
            std |-> [gmtoff |-> 3600, abbr |-> <<67, 69, 84>>],
            dst |-> [gmtoff |-> 7200, abbr |-> <<67, 69, 83, 84>>]]
      [] name = "America/New_York" ->
           \* 2019-03-10T07:00Z .. 2019-11-03T06:00Z: EDT, otherwise EST
           [dst_from |-> 1552201200, dst_to |-> 1572760800,
            std |-> [gmtoff |-> -18000, abbr |-> <<69, 83, 84>>],
            dst |-> [gmtoff |-> -14400, abbr |-> <<69, 68, 84>>]]
      [] OTHER ->
           [dst_from |-> 0, dst_to |-> 0,
            std |-> [gmtoff |-> 0, abbr |-> <<85, 84, 67>>],
            dst |-> [gmtoff |-> 0, abbr |-> <<85, 84, 67>>]]

\* ------------------------------------------------------- calendar arithmetic
\* days since 1970-01-01 -> [y, m, d] of the proleptic Gregorian calendar
CivilFromDays(days) ==
    LET z   == days + 719468
        era == z \div 146097
        doe == z - era * 146097
        yoe == (doe - doe \div 1460 + doe \div 36524 - doe \div 146096) \div 365
        doy == doe - (365 * yoe + yoe \div 4 - yoe \div 100)
        mp  == (5 * doy + 2) \div 153
        d   == doy - (153 * mp + 2) \div 5 + 1
        m   == IF mp < 10 THEN mp + 3 ELSE mp - 9
    IN  [y |-> yoe + era * 400 + (IF m <= 2 THEN 1 ELSE 0), m |-> m, d |-> d]

DaysFromCivil(y0, m, d) ==
    LET y   == IF m <= 2 THEN y0 - 1 ELSE y0
        era == y \div 400
        yoe == y - era * 400
        doy == (153 * (IF m > 2 THEN m - 3 ELSE m + 9) + 2) \div 5 + d - 1
        doe == yoe * 365 + yoe \div 4 - yoe \div 100 + doy
    IN  era * 146097 + doe - 719468


\* ------------------------------------------------------ the calendar record
\* libc::tm on the unix targets.  tm_zone is the abbreviation the pointer
\* names; <<>> stands for the null pointer of a zeroed record.
ZeroTm ==
    [tm_sec |-> 0, tm_min |-> 0, tm_hour |-> 0, tm_mday |-> 0, tm_mon |-> 0,
     tm_year |-> 0, tm_wday |-> 0, tm_yday |-> 0, tm_isdst |-> 0,
     tm_gmtoff |-> 0, tm_zone |-> <<>>]

\* The fields of the instant `epoch` read on a clock `gmtoff` seconds east
\* of UTC, stored into the record `now`.
BrokenDown(now, epoch, gmtoff, isdst, abbr) ==
    LET t    == epoch + gmtoff
        days == t \div 86400
        rem  == t % 86400
        ymd  == CivilFromDays(days)
    IN  [now EXCEPT !.tm_sec = rem % 60,
                    !.tm_min = (rem \div 60) % 60,
                    !.tm_hour = rem \div 3600,
                    !.tm_mday = ymd.d,
                    !.tm_mon = ymd.m - 1,
                    !.tm_year = ymd.y - 1900,
                    !.tm_wday = (days + 4) % 7,
                    !.tm_yday = days - DaysFromCivil(ymd.y, 1, 1),
                    !.tm_isdst = isdst,
                    !.tm_gmtoff = gmtoff,
                    !.tm_zone = abbr]

\* ------------------------------------------------- the C library's routines
\* The process-global state the routines read is passed as
\*   g = [locale, tz, envLC, envTZ]
\* (the active locale, the active zone, and the two environment variables).

\* glibc activates the zone from TZ on the first conversion when tzset() has
\* not run yet, and never again on its own in localtime_r / gmtime_r.
TzLoaded(g) == IF g.tz = Uninit THEN g.envTZ ELSE g.tz

\* tzset(): the zone TZ names becomes the active zone.
c_tzset(g) == g.envTZ

\* setlocale(LC_ALL, ""): the locale LC_ALL names becomes the active locale.
c_setlocale(g) == g.envLC

\* the period of the zone `name` that holds the instant `epoch`
ZonePeriod(name, epoch) ==
    LET z == TZDB(name)
    IN  IF z.dst_from <= epoch /\ epoch < z.dst_to
        THEN [isdst |-> 1, gmtoff |-> z.dst.gmtoff, abbr |-> z.dst.abbr]
        ELSE [isdst |-> 0, gmtoff |-> z.std.gmtoff, abbr |-> z.std.abbr]

\* localtime_r(&epoch, &mut now): [tm, tz] = the record filled in and the
\* active zone afterwards.
c_localtime_r(epoch, now, g) ==
    LET zone == TzLoaded(g)
        p    == ZonePeriod(zone, epoch)
    IN  [tm |-> BrokenDown(now, epoch, p.gmtoff, p.isdst, p.abbr), tz |-> zone]

\* gmtime_r(&epoch, &mut now): the UTC fields, zone "GMT".
c_gmtime_r(epoch, now, g) ==
    [tm |-> BrokenDown(now, epoch, 0, 0, <<71, 77, 84>>), tz |-> TzLoaded(g)]

\* mktime(tm): the record read as local time of the zone TZ names (mktime
\* behaves as though it called tzset()); tm_isdst selects the offset.
c_mktime(tm, g) ==
    LET z   == TZDB(c_tzset(g))
        off == IF tm.tm_isdst > 0 THEN z.dst.gmtoff ELSE z.std.gmtoff
    IN  DaysFromCivil(tm.tm_year + 1900, tm.tm_mon + 1, tm.tm_mday) * 86400
          + tm.tm_hour * 3600 + tm.tm_min * 60 + tm.tm_sec - off

\* a C string is read up to its first NUL
CStrText(p) ==
    LET nuls == {i \in 1..Len(p) : p[i] = NUL}
        end  == IF nuls = {} THEN Len(p) + 1
                ELSE CHOOSE i \in nuls : \A j \in nuls : i <= j
    IN  SubSeq(p, 1, end - 1)

\* does the format hold the conversion %<c>?
RECURSIVE HasConv(_, _)
HasConv(fmt, c) ==
    IF Len(fmt) < 2 THEN FALSE
    ELSE IF Head(fmt) = PCT
         THEN fmt[2] = c \/ HasConv(SubSeq(fmt, 3, Len(fmt)), c)
         ELSE HasConv(Tail(fmt), c)

RECURSIVE Render(_, _, _)
RECURSIVE Conv(_, _, _)
\* one conversion of strftime(3)
Conv(c, tm, g) ==
    LET lc == LC_TIME(g.locale)
    IN  CASE c = 97  -> lc.abday[tm.tm_wday + 1]                      \* %a
          [] c = 98  -> lc.abmon[tm.tm_mon + 1]                       \* %b
          [] c = 99  -> Render(lc.d_t_fmt, tm, g)                     \* %c
          [] c = 100 -> Dec2(tm.tm_mday)                              \* %d
          [] c = 101 -> Spc2(tm.tm_mday)                              \* %e
          [] c = 72  -> Dec2(tm.tm_hour)                              \* %H
          [] c = 73  -> Dec2(IF tm.tm_hour % 12 = 0 THEN 12
                             ELSE tm.tm_hour % 12)                    \* %I
          [] c = 77  -> Dec2(tm.tm_min)                               \* %M
          [] c = 83  -> Dec2(tm.tm_sec)                               \* %S
          [] c = 112 -> lc.am_pm[IF tm.tm_hour < 12 THEN 1 ELSE 2]    \* %p
          [] c = 89  -> Dec(tm.tm_year + 1900)                        \* %Y
          \* %r = "%I:%M:%S %p"
          [] c = 114 -> Render(<<37, 73, 58, 37, 77, 58, 37, 83, 32, 37, 112>>, tm, g)
          \* %T = "%H:%M:%S"
          [] c = 84  -> Render(<<37, 72, 58, 37, 77, 58, 37, 83>>, tm, g)
          [] c = 90  -> tm.tm_zone                                    \* %Z
          [] c = 115 -> Dec(c_mktime(tm, g))                          \* %s
          [] c = PCT -> <<PCT>>                                       \* %%
          [] OTHER   -> <<PCT, c>>

\* the expansion of a whole format
Render(fmt, tm, g) ==
    IF fmt = <<>> THEN <<>>
    ELSE IF Head(fmt) = PCT /\ Len(fmt) >= 2
         THEN Conv(fmt[2], tm, g) \o Render(SubSeq(fmt, 3, Len(fmt)), tm, g)
         ELSE <<Head(fmt)>> \o Render(Tail(fmt), tm, g)

\* strftime(s, max, format, tm): [ret, buf, tz].  The expansion and its
\* terminator are stored when they fit in max bytes and the length is
\* returned; otherwise 0 is returned and the array holds what was stored
\* before the routine gave up.  %s goes through mktime, which activates TZ.
c_strftime(s, max, format, tm, g) ==
    LET fmt  == CStrText(format)
        out  == Render(fmt, tm, g)
        fits == Len(out) + 1 <= max
        put  == IF fits THEN out \o <<NUL>> ELSE SubSeq(out, 1, max)
    IN  [ret |-> IF fits THEN Len(out) ELSE 0,
         buf |-> [i \in 1..Len(s) |-> IF i <= Len(put) THEN put[i] ELSE s[i]],
         tz  |-> IF HasConv(fmt, 115) THEN c_tzset(g) ELSE g.tz]

\* ------------------------------------------------- Rust's standard library
\* CString::new replaced by a conversion that does not look for NUL
CString_new_unchecked(format) ==
    [ok |-> TRUE, bytes |-> format \o <<NUL>>]

\* CString::new(format): the bytes and a terminator, or NulError when the
\* text holds a NUL byte.
CString_new(format) ==
    [ok    |-> \A i \in 1..Len(format) : format[i] # NUL,
     bytes |-> format \o <<NUL>>]

Cont(b) == 128 <= b /\ b <= 191

\* The chunk Utf8Chunks reads at a byte that is no continuation byte:
\* [len, cp] = the bytes it takes and the code point they decode to, U+FFFD
\* for the maximal ill-formed prefix.
ChunkAt(v, i) ==
    LET b == v[i]
        n == Len(v)
        lo2 == IF b = 224 THEN 160 ELSE IF b = 240 THEN 144 ELSE 128
        hi2 == IF b = 237 THEN 159 ELSE IF b = 244 THEN 143 ELSE 191
        second == n >= i + 1 /\ lo2 <= v[i + 1] /\ v[i + 1] <= hi2
        third == n >= i + 2 /\ Cont(v[i + 2])
        fourth == n >= i + 3 /\ Cont(v[i + 3])
        bad(k) == [len |-> k, cp |-> REPLACEMENT]
    IN  CASE b < 128 -> [len |-> 1, cp |-> b]
          [] 194 <= b /\ b <= 223 ->
               IF second THEN [len |-> 2, cp |-> (b - 192) * 64 + (v[i + 1] - 128)]
               ELSE bad(1)
          [] 224 <= b /\ b <= 239 ->
               IF ~second THEN bad(1)
               ELSE IF ~third THEN bad(2)
               ELSE [len |-> 3,
                     cp |-> (b - 224) * 4096 + (v[i + 1] - 128) * 64 + (v[i + 2] - 128)]
          [] 240 <= b /\ b <= 244 ->
               IF ~second THEN bad(1)
               ELSE IF ~third THEN bad(2)
               ELSE IF ~fourth THEN bad(3)
               ELSE [len |-> 4,
                     cp |-> (b - 240) * 262144 + (v[i + 1] - 128) * 4096
                              + (v[i + 2] - 128) * 64 + (v[i + 3] - 128)]
          [] OTHER -> bad(1)

\* String::from_utf8_lossy(v): well-formed sequences decode to their code
\* point, every maximal ill-formed run of bytes to U+FFFD.  A chunk takes
\* continuation bytes only, so the byte at i opens a chunk unless the
\* nearest earlier byte that is no continuation byte took it; a continuation
\* byte that opens a chunk is ill-formed on its own.
from_utf8_lossy(v) ==
    LET n == Len(v)
        lead(i) == LET c == {j \in (IF i > 3 THEN i - 3 ELSE 1)..i : ~Cont(v[j])}
                   IN  IF c = {} THEN 0 ELSE CHOOSE j \in c : \A k \in c : k <= j
        taken(i) == LET j == lead(i)
                    IN  j # 0 /\ j # i /\ i - j < ChunkAt(v, j).len
        chars == [i \in 1..n |->
                    IF v[i] < 128 THEN v[i]
                    ELSE IF taken(i) THEN -1
                    ELSE IF Cont(v[i]) THEN REPLACEMENT ELSE ChunkAt(v, i).cp]
    IN  SelectSeq(chars, LAMBDA c : c # -1)

\* ------------------------------------------------------------------- state
VARIABLES
    envLC,      \* the environment variable LC_ALL
    envTZ,      \* the environment variable TZ
    locale,     \* the C library's active locale
    tz,         \* the C library's active time zone
    bufRead,    \* what this build's read of `buf` at lib.rs 78 observes
    reloads,    \* [lc, tz]: reload calls since the variable last changed
    act,        \* [lc, tz]: the variable's value at the latest reload call;
                \* zone: TZ at the latest activation of the zone, by any routine
    call,       \* the latest call into the library and what it returned
    \* several threads calling at once (SpecMT); Spec has one caller
    pc,         \* per thread: "idle", or the call the thread is inside
    discipline, \* how the callers serialize their calls, if they do
    mutex,      \* the callers' lock: its holder, or 0
    started,    \* the workers have been started (discipline "init_first")
    seen        \* per thread: the locale and zone its formatting call under way read

mtvars == <<pc, discipline, mutex, started, seen>>
vars == <<envLC, envTZ, locale, tz, bufRead, reloads, act, call, mtvars>>

Threads == 1..NThreads
NoSeen == [locale |-> "none", tz |-> "none"]

\* the process-global state the C routines read
G == [locale |-> locale, tz |-> tz, envLC |-> envLC, envTZ |-> envTZ]

\* ------------------------------------------------------------- the wrapper
\* get_local_tm_from_epoch: a zeroed record handed to localtime_r
get_local_tm_from_epoch(epoch, g) ==
    LET now == ZeroTm
    IN  c_localtime_r(epoch, now, g)

\* get_gmt_tm_from_epoch keeping a record across calls: once an earlier
\* call has loaded the zone, it returns the record that call's local
\* conversion of EPOCH left instead of converting into a fresh one
get_gmt_tm_cached(epoch, g) ==
    IF g.tz = Uninit
    THEN c_gmtime_r(epoch, ZeroTm, g)
    ELSE [tm |-> c_localtime_r(1565151596, ZeroTm, g).tm, tz |-> g.tz]

\* get_gmt_tm_from_epoch: a zeroed record handed to gmtime_r
get_gmt_tm_from_epoch(epoch, g) ==
    LET now == ZeroTm
    IN  c_gmtime_r(epoch, now, g)

\* `buf` is an immutable binding ("let buf", no mut) whose bytes the C
\* routine overwrites through buf.as_ptr() cast to a mutable pointer.
\* Writing to the bytes of an immutable binding is undefined behaviour:
\* the read that follows may observe the bytes the routine stored, or the
\* bytes the binding was initialised with.  bufRead is the outcome of
\* the build at hand.
ReadBuf(initial, stored) == IF bufRead = "stored" THEN stored ELSE initial

\* strftime reading the buffer as a C string instead of its first l bytes
strftime_cstr(format, tm, g) ==
    LET f == CString_new(format)
    IN  IF ~f.ok
        THEN [outcome |-> "panic", text |-> <<>>, l |-> 0, fcalls |-> 0, tz |-> g.tz]
        ELSE LET buf  == Zeros(BUF_LEN)
                 r    == c_strftime(buf, Len(buf), f.bytes, tm, g)
                 bytes == ReadBuf(buf, r.buf)
             IN  [outcome |-> "ok",
                  text    |-> from_utf8_lossy(CStrText(bytes)),
                  l       |-> r.ret,
                  fcalls  |-> 1,
                  tz      |-> r.tz]

\* strftime calling the routine again with a buffer twice as large when it
\* reports 0 for a format that is not empty
strftime_retry(format, tm, g) ==
    LET f == CString_new(format)
    IN  IF ~f.ok
        THEN [outcome |-> "panic", text |-> <<>>, l |-> 0, fcalls |-> 0, tz |-> g.tz]
        ELSE LET buf   == Zeros(BUF_LEN)
                 r1    == c_strftime(buf, Len(buf), f.bytes, tm, g)
                 again == r1.ret = 0 /\ format # <<>>
                 big   == Zeros(2 * BUF_LEN)
                 r     == IF again THEN c_strftime(big, Len(big), f.bytes, tm, g) ELSE r1
                 bytes == ReadBuf(IF again THEN big ELSE buf, r.buf)
             IN  [outcome |-> "ok",
                  text    |-> from_utf8_lossy(SubSeq(bytes, 1, r.ret)),
                  l       |-> r.ret,
                  fcalls  |-> IF again THEN 2 ELSE 1,
                  tz      |-> r.tz]

\* strftime: [outcome, text, l, fcalls, tz].  fcalls counts the calls of
\* c::strftime; outcome "panic" is the unwrap() of NulError.
strftime(format, tm, g) ==
    LET f == CString_new(format)
    IN  IF ~f.ok
        THEN [outcome |-> "panic", text |-> <<>>, l |-> 0, fcalls |-> 0, tz |-> g.tz]
        ELSE LET buf  == Zeros(BUF_LEN)
                 r    == c_strftime(buf, Len(buf), f.bytes, tm, g)
                 bytes == ReadBuf(buf, r.buf)
             IN  [outcome |-> "ok",
                  text    |-> from_utf8_lossy(SubSeq(bytes, 1, r.ret)),
                  l       |-> r.ret,
                  fcalls  |-> 1,
                  tz      |-> r.tz]

\* strftime_local formatting the UTC record
strftime_local_gmtrecord(format, epoch, g) ==
    LET c == get_gmt_tm_from_epoch(epoch, g)
        r == strftime(format, c.tm, [g EXCEPT !.tz = c.tz])
    IN  [outcome |-> r.outcome, text |-> r.text, l |-> r.l, fcalls |-> r.fcalls,
         tz |-> r.tz, tm |-> c.tm]

\* strftime_gmt formatting the local record
strftime_gmt_localrecord(format, epoch, g) ==
    LET c == get_local_tm_from_epoch(epoch, g)
        r == strftime(format, c.tm, [g EXCEPT !.tz = c.tz])
    IN  [outcome |-> r.outcome, text |-> r.text, l |-> r.l, fcalls |-> r.fcalls,
         tz |-> r.tz, tm |-> c.tm]

\* strftime_local / strftime_gmt: the record of the converter, formatted.
\* The result carries the record for the properties below.
strftime_local(format, epoch, g) ==
    LET c == get_local_tm_from_epoch(epoch, g)
        r == strftime(format, c.tm, [g EXCEPT !.tz = c.tz])
    IN  [outcome |-> r.outcome, text |-> r.text, l |-> r.l, fcalls |-> r.fcalls,
         tz |-> r.tz, tm |-> c.tm]

strftime_gmt(format, epoch, g) ==
    LET c == get_gmt_tm_from_epoch(epoch, g)
        r == strftime(format, c.tm, [g EXCEPT !.tz = c.tz])
    IN  [outcome |-> r.outcome, text |-> r.text, l |-> r.l, fcalls |-> r.fcalls,
         tz |-> r.tz, tm |-> c.tm]

\* set_locale undoing the activation when the locale is active already
set_locale_toggle(g) == IF g.locale = g.envLC THEN StartLocale ELSE g.envLC

\* set_locale activating the locale once only
set_locale_once(g) == IF g.locale = StartLocale THEN g.envLC ELSE g.locale

\* set_locale: the active locale after setlocale(LC_ALL, "")
set_locale(g) == c_setlocale(g)

\* tzset: the active zone after tzset()
tzset(g) == c_tzset(g)

\* ------------------------------------------------------------------ inputs
\* EPOCH of the tests, 2019-08-07T04:19:56Z (daylight saving time in
\* Brussels), and 2019-12-31T23:59:59Z (standard time, another date there)
EPOCH == 1565151596
Epochs == {EPOCH, 1577836799}

F_c == <<37, 99>>                                \* "%c"
F_Z == <<37, 90>>                                \* "%Z"
F_s == <<37, 115>>                               \* "%s"
F_nul == <<37, 72, NUL, 37, 77>>                 \* "%H\0%M"
Formats ==
    {Repeat(F_c, k) : k \in {1, MaxRepeat - 1, MaxRepeat}}
      \cup {<<>>, F_Z, F_s, F_nul}

\* the <<format, epoch>> pairs the formatting calls are made with
Inputs == (Formats \X {EPOCH}) \cup ({F_c} \X Epochs)

\* ----------------------------------------------------------------- actions
NoG == [locale |-> StartLocale, tz |-> Uninit, envLC |-> "", envTZ |-> ""]

Called(op, format, t, g0, r) ==
    [op |-> op, format |-> format, epoch |-> t, g0 |-> g0,
     outcome |-> r.outcome, text |-> r.text, l |-> r.l, fcalls |-> r.fcalls,
     tm |-> r.tm]

NoResult == [outcome |-> "none", text |-> <<>>, l |-> 0, fcalls |-> 0, tm |-> ZeroTm]

\* act after a conversion or formatting call that left the zone `after`:
\* the C library activates the zone from TZ, and from nothing else
Activated(after) == [act EXCEPT !.zone = IF after = tz THEN @ ELSE envTZ]

Init ==
    /\ envLC \in EnvLocales
    /\ envTZ \in EnvZones
    /\ locale = StartLocale
    /\ tz = Uninit
    /\ bufRead \in {"stored", "initial"}
    /\ reloads = [lc |-> 0, tz |-> 0]
    /\ act = [lc |-> "none", tz |-> "none", zone |-> "none"]
    /\ call = Called("none", <<>>, 0, NoG, NoResult)
    /\ pc = [t \in Threads |-> "idle"]
    /\ discipline = "none"
    /\ mutex = 0
    /\ started = FALSE
    /\ seen = [t \in Threads |-> NoSeen]

\* The one caller of Spec holds the value a call returned until it drops it,
\* and makes its next call after that.
Returned == call.op # "none"

\* env::set_var("LC_ALL", v)
SetVarLC(v) ==
    /\ ~Returned
    /\ envLC' = v
    /\ reloads' = [reloads EXCEPT !.lc = IF v = envLC THEN @ ELSE 0]
    /\ call' = Called("set_var", <<>>, 0, NoG, NoResult)
    /\ UNCHANGED <<envTZ, locale, tz, bufRead, act, mtvars>>

\* env::set_var("TZ", v)
SetVarTZ(v) ==
    /\ ~Returned
    /\ envTZ' = v
    /\ reloads' = [reloads EXCEPT !.tz = IF v = envTZ THEN @ ELSE 0]
    /\ call' = Called("set_var", <<>>, 0, NoG, NoResult)
    /\ UNCHANGED <<envLC, locale, tz, bufRead, act, mtvars>>

SetLocale ==
    /\ ~Returned
    /\ reloads.lc < MaxReloads
    /\ locale' = set_locale(G)
    /\ reloads' = [reloads EXCEPT !.lc = @ + 1]
    /\ act' = [act EXCEPT !.lc = envLC]
    /\ call' = Called("set_locale", <<>>, 0, NoG, NoResult)
    /\ UNCHANGED <<envLC, envTZ, tz, bufRead, mtvars>>

Tzset ==
    /\ ~Returned
    /\ reloads.tz < MaxReloads
    /\ tz' = tzset(G)
    /\ reloads' = [reloads EXCEPT !.tz = @ + 1]
    /\ act' = [act EXCEPT !.tz = envTZ, !.zone = envTZ]
    /\ call' = Called("tzset", <<>>, 0, NoG, NoResult)
    /\ UNCHANGED <<envLC, envTZ, locale, bufRead, mtvars>>

GetLocalTm(t) ==
    LET c == get_local_tm_from_epoch(t, G)
    IN  /\ ~Returned
        /\ tz' = c.tz
        /\ call' = Called("get_local_tm_from_epoch", <<>>, t, G,
                          [NoResult EXCEPT !.outcome = "ok", !.tm = c.tm])
        /\ act' = Activated(tz')
        /\ UNCHANGED <<envLC, envTZ, locale, bufRead, reloads, mtvars>>

GetGmtTm(t) ==
    LET c == get_gmt_tm_from_epoch(t, G)
    IN  /\ ~Returned
        /\ tz' = c.tz
        /\ call' = Called("get_gmt_tm_from_epoch", <<>>, t, G,
                          [NoResult EXCEPT !.outcome = "ok", !.tm = c.tm])
        /\ act' = Activated(tz')
        /\ UNCHANGED <<envLC, envTZ, locale, bufRead, reloads, mtvars>>

StrftimeLocal(format, t) ==
    LET r == strftime_local(format, t, G)
    IN  /\ ~Returned
        /\ tz' = r.tz
        /\ call' = Called("strftime_local", format, t, G, r)
        /\ act' = Activated(tz')
        /\ UNCHANGED <<envLC, envTZ, locale, bufRead, reloads, mtvars>>

StrftimeGmt(format, t) ==
    LET r == strftime_gmt(format, t, G)
    IN  /\ ~Returned
        /\ tz' = r.tz
        /\ call' = Called("strftime_gmt", format, t, G, r)
        /\ act' = Activated(tz')
        /\ UNCHANGED <<envLC, envTZ, locale, bufRead, reloads, mtvars>>

\* epoch(): c::time(null), the current time
epoch(now) == now

Epoch(t) ==
    /\ ~Returned
    /\ call' = Called("epoch", <<>>, epoch(t), NoG, NoResult)
    /\ UNCHANGED <<envLC, envTZ, locale, tz, bufRead, reloads, act, mtvars>>

\* the returned String, or libc::tm, goes out of scope
Drop ==
    /\ Returned
    /\ call' = Called("none", <<>>, 0, NoG, NoResult)
    /\ UNCHANGED <<envLC, envTZ, locale, tz, bufRead, reloads, act, mtvars>>

Next ==
    \/ \E v \in EnvLocales : SetVarLC(v)
    \/ \E v \in EnvZones : SetVarTZ(v)
    \/ SetLocale
    \/ Tzset
    \/ \E t \in Epochs : GetLocalTm(t)
    \/ \E t \in Epochs : GetGmtTm(t)
    \/ \E in \in Inputs : StrftimeLocal(in[1], in[2])
    \/ \E in \in Inputs : StrftimeGmt(in[1], in[2])
    \/ \E t \in Epochs : Epoch(t)
    \/ Drop

Spec == Init /\ [][Next]_vars

\* ------------------------------------------ several threads calling at once
\* A call is an interval: the thread enters it and later leaves it.  A
\* reload mutates the C library's locale or zone between its two steps; a
\* formatting call reads both when it enters, and is still reading them
\* until it leaves.  The formatting call is strftime_local("%c", EPOCH).

\* what the library waits for before it calls the C routine: nothing, the
\* wrapper functions hold no lock
LibraryLock_global(t) == \A u \in Threads \ {t} : pc[u] = "idle"

LibraryLock(t) == TRUE

\* the callers' own discipline lets thread t start a call of kind k
Ready(t, k) ==
    /\ pc[t] = "idle"
    /\ discipline = "mutex" => mutex = t
    /\ discipline = "init_first" =>
         IF k = "format" THEN started ELSE ~started /\ t = 1

Mutating(what) == \E u \in Threads : pc[u] = what

\* the state a formatting call that enters now reads
Observed ==
    [locale |-> IF Mutating("set_locale") THEN "torn" ELSE locale,
     tz     |-> IF Mutating("tzset") THEN "torn" ELSE TzLoaded(G)]

\* the formatting calls under way read what the reload entering now mutates
Torn(field) ==
    [u \in Threads |->
        IF pc[u] = "format" THEN [seen[u] EXCEPT ![field] = "torn"] ELSE seen[u]]

\* the callers' lock
Acquire(t) ==
    /\ discipline = "mutex"
    /\ mutex = 0
    /\ pc[t] = "idle"
    /\ mutex' = t
    /\ UNCHANGED <<envLC, envTZ, locale, tz, bufRead, reloads, act, call,
                   pc, discipline, started, seen>>

Release(t) ==
    /\ mutex = t
    /\ pc[t] = "idle"
    /\ mutex' = 0
    /\ UNCHANGED <<envLC, envTZ, locale, tz, bufRead, reloads, act, call,
                   pc, discipline, started, seen>>

\* the workers start once both reloads have been done and are over
Start ==
    /\ discipline = "init_first"
    /\ ~started
    /\ \A t \in Threads : pc[t] = "idle"
    /\ act.lc # "none" /\ act.tz # "none"
    /\ started' = TRUE
    /\ UNCHANGED <<envLC, envTZ, locale, tz, bufRead, reloads, act, call,
                   pc, discipline, mutex, seen>>

\* env::set_var by a thread that may start a call
SetVarBy(t, name, v) ==
    /\ Ready(t, "set_var")
    /\ \A u \in Threads : pc[u] = "idle"
    /\ envLC' = IF name = "LC_ALL" THEN v ELSE envLC
    /\ envTZ' = IF name = "TZ" THEN v ELSE envTZ
    /\ UNCHANGED <<locale, tz, bufRead, reloads, act, call, mtvars>>

EnterSetLocale(t) ==
    /\ Ready(t, "set_locale")
    /\ LibraryLock(t)
    /\ pc' = [pc EXCEPT ![t] = "set_locale"]
    /\ seen' = Torn("locale")
    /\ UNCHANGED <<envLC, envTZ, locale, tz, bufRead, reloads, act, call,
                   discipline, mutex, started>>

LeaveSetLocale(t) ==
    /\ pc[t] = "set_locale"
    /\ locale' = set_locale(G)
    /\ act' = [act EXCEPT !.lc = envLC]
    /\ pc' = [pc EXCEPT ![t] = "idle"]
    /\ UNCHANGED <<envLC, envTZ, tz, bufRead, reloads, call,
                   discipline, mutex, started, seen>>

EnterTzset(t) ==
    /\ Ready(t, "tzset")
    /\ LibraryLock(t)
    /\ pc' = [pc EXCEPT ![t] = "tzset"]
    /\ seen' = Torn("tz")
    /\ UNCHANGED <<envLC, envTZ, locale, tz, bufRead, reloads, act, call,
                   discipline, mutex, started>>

LeaveTzset(t) ==
    /\ pc[t] = "tzset"
    /\ tz' = tzset(G)
    /\ act' = [act EXCEPT !.tz = envTZ, !.zone = envTZ]
    /\ pc' = [pc EXCEPT ![t] = "idle"]
    /\ UNCHANGED <<envLC, envTZ, locale, bufRead, reloads, call,
                   discipline, mutex, started, seen>>

EnterFormat(t) ==
    /\ Ready(t, "format")
    /\ LibraryLock(t)
    /\ pc' = [pc EXCEPT ![t] = "format"]
    /\ seen' = [seen EXCEPT ![t] = Observed]
    /\ UNCHANGED <<envLC, envTZ, locale, tz, bufRead, reloads, act, call,
                   discipline, mutex, started>>

LeaveFormat(t) ==
    /\ pc[t] = "format"
    /\ tz' = TzLoaded(G)
    /\ act' = Activated(tz')
    /\ pc' = [pc EXCEPT ![t] = "idle"]
    /\ seen' = [seen EXCEPT ![t] = NoSeen]
    /\ UNCHANGED <<envLC, envTZ, locale, bufRead, reloads, call,
                   discipline, mutex, started>>

InitMT ==
    /\ envLC \in EnvLocales
    /\ envTZ \in EnvZones
    /\ locale = StartLocale
    /\ tz = Uninit
    /\ bufRead = "stored"
    /\ reloads = [lc |-> 0, tz |-> 0]
    /\ act = [lc |-> "none", tz |-> "none", zone |-> "none"]
    /\ call = Called("none", <<>>, 0, NoG, NoResult)
    /\ pc = [t \in Threads |-> "idle"]
    /\ discipline \in {"none", "mutex", "init_first"}
    /\ mutex = 0
    /\ started = FALSE
    /\ seen = [t \in Threads |-> NoSeen]

NextMT ==
    \/ \E t \in Threads : Acquire(t)
    \/ \E t \in Threads : Release(t)
    \/ Start
    \/ \E t \in Threads, v \in EnvLocales : SetVarBy(t, "LC_ALL", v)
    \/ \E t \in Threads, v \in EnvZones : SetVarBy(t, "TZ", v)
    \/ \E t \in Threads : EnterSetLocale(t)
    \/ \E t \in Threads : LeaveSetLocale(t)
    \/ \E t \in Threads : EnterTzset(t)
    \/ \E t \in Threads : LeaveTzset(t)
    \/ \E t \in Threads : EnterFormat(t)
    \/ \E t \in Threads : LeaveFormat(t)

SpecMT == InitMT /\ [][NextMT]_vars

\* -------------------------------------------------------------- properties
Formatted == call.op \in {"strftime_local", "strftime_gmt"}

HasNul(format) == \E i \in 1..Len(format) : format[i] = NUL

\* the process-global state the formatter of the latest call saw: the state
\* at the call, with the zone the converter of the call left
G1 == [call.g0 EXCEPT !.tz = TzLoaded(call.g0)]

\* the text the kind of call of the latest call returns under the state g
TextUnder(g) ==
    IF call.op = "strftime_local"
    THEN strftime_local(call.format, call.epoch, g).text
    ELSE strftime_gmt(call.format, call.epoch, g).text

\* the expansion of the latest call's format, before it is stored
Expansion == Render(call.format, call.tm, G1)

Range(f) == {f[i] : i \in DOMAIN f}

\* the decimal digits of a text, in order
Digits(text) == SelectSeq(text, LAMBDA c : 48 <= c /\ c <= 57)

\* C1 as stated: whatever zone is active and whatever TZ holds, strftime_gmt
\* returns for every format and epoch the text it returns when the zone is
\* UTC (same locale, same build).
C1_GmtTextIgnoresZone ==
    call.op = "strftime_gmt" =>
        call.text = TextUnder([call.g0 EXCEPT !.tz = "UTC", !.envTZ = "UTC"])

\* C1 as amended: the same, for every format without the %s conversion.
C1_GmtTextIgnoresZoneUnlessSeconds ==
    (call.op = "strftime_gmt" /\ ~HasConv(call.format, 115)) =>
        call.text = TextUnder([call.g0 EXCEPT !.tz = "UTC", !.envTZ = "UTC"])

C1_Witness ==
    /\ call.op = "strftime_gmt"
    /\ call.format = F_c
    /\ act.tz = "Europe/Brussels"
    /\ call.g0.tz = "Europe/Brussels"
    /\ call.outcome = "ok"
    /\ call.l > 0

\* C2: a formatting call whose format holds a NUL byte fails: it panics,
\* c::strftime is not called, and no text, not even a partial one, results.
C2_NulFormatFails ==
    (Formatted /\ HasNul(call.format)) =>
        /\ call.outcome = "panic"
        /\ call.fcalls = 0
        /\ call.text = <<>>
        /\ call.l = 0

C2_Witness ==
    /\ call.op = "strftime_local"
    /\ call.format = F_nul
    /\ call.tm.tm_hour = 6

\* C3: the text of a formatting call is the decoding of the first l bytes
\* of the 100-byte buffer, l being what c::strftime returned; l is less than
\* the buffer's length, so no byte from outside the buffer is read; and an
\* expansion that does not fit gives the empty text, no stray bytes.
C3_TextIsFirstLBytes ==
    (Formatted /\ call.outcome = "ok") =>
        LET initial == Zeros(BUF_LEN)
            os == c_strftime(initial, BUF_LEN, call.format \o <<NUL>>, call.tm, G1)
        IN  /\ call.l = os.ret
            /\ call.l < BUF_LEN
            /\ call.text = from_utf8_lossy(SubSeq(ReadBuf(initial, os.buf), 1, call.l))
            /\ Len(call.text) <= call.l
            /\ (Len(Expansion) >= BUF_LEN => call.text = <<>>)

C3_Witness ==
    /\ Formatted
    /\ call.outcome = "ok"
    /\ REPLACEMENT \in Range(call.text)
    /\ Len(call.text) = call.l

\* C4: when the expansion and its terminator do not fit the 100 bytes, the
\* call returns the empty text and length 0, with no error and after one
\* call of c::strftime; that is the result of the empty format too.
C4_TruncationGivesEmptyText ==
    (Formatted /\ ~HasNul(call.format) /\ Len(Expansion) + 1 > BUF_LEN) =>
        LET empty == strftime(<<>>, call.tm, G1)
        IN  /\ call.outcome = "ok"
            /\ call.text = <<>>
            /\ call.l = 0
            /\ call.fcalls = 1
            /\ empty.outcome = call.outcome
            /\ empty.text = call.text
            /\ empty.l = call.l

C4_Witness ==
    /\ Formatted
    /\ call.format = Repeat(F_c, MaxRepeat)
    /\ Len(Expansion) + 1 > BUF_LEN
    /\ call.outcome = "ok"

\* C5: after two or more set_locale() calls in a row with LC_ALL unchanged,
\* a formatting call returns the text it returns after one activation of
\* LC_ALL; the same for tzset() and TZ.
C5_ReloadIdempotent ==
    (Formatted /\ call.outcome = "ok") =>
        /\ reloads.lc >= 2 =>
             call.text = TextUnder([call.g0 EXCEPT !.locale = c_setlocale(call.g0)])
        /\ reloads.tz >= 2 =>
             call.text = TextUnder([call.g0 EXCEPT !.tz = c_tzset(call.g0)])

C5_Witness ==
    /\ call.op = "strftime_local"
    /\ call.format = F_c
    /\ call.outcome = "ok"
    /\ reloads.lc >= 2
    /\ reloads.tz >= 2

C7_ConvenienceIsComposition ==
    /\ call.op = "strftime_local" =>
         LET c == get_local_tm_from_epoch(call.epoch, call.g0)
             r == strftime(call.format, c.tm, [call.g0 EXCEPT !.tz = c.tz])
         IN  /\ <<call.outcome, call.text, call.l>> = <<r.outcome, r.text, r.l>>
             /\ call.tm = c.tm
             /\ tz = r.tz
             /\ <<locale, envLC, envTZ>> = <<call.g0.locale, call.g0.envLC, call.g0.envTZ>>
    /\ call.op = "strftime_gmt" =>
         LET c == get_gmt_tm_from_epoch(call.epoch, call.g0)
             r == strftime(call.format, c.tm, [call.g0 EXCEPT !.tz = c.tz])
         IN  /\ <<call.outcome, call.text, call.l>> = <<r.outcome, r.text, r.l>>
             /\ call.tm = c.tm
             /\ tz = r.tz
             /\ <<locale, envLC, envTZ>> = <<call.g0.locale, call.g0.envLC, call.g0.envTZ>>

C7_Witness ==
    /\ call.op = "strftime_local"
    /\ call.outcome = "ok"
    /\ call.l > 0
    /\ call.tm.tm_gmtoff = 7200

\* the state in which LC_ALL and TZ are what they were at the latest
\* set_locale() and the latest tzset() call, and active
AtLatestReloads == [locale |-> act.lc, tz |-> act.tz, envLC |-> act.lc, envTZ |-> act.tz]

\* C8 as stated: once set_locale() and tzset() have been called, a
\* formatting call returns what it returns when LC_ALL and TZ are as they
\* were at the latest set_locale() and the latest tzset() call.
C8_LatestReloadDecides ==
    (Formatted /\ call.outcome = "ok" /\ act.lc # "none" /\ act.tz # "none") =>
        call.text = TextUnder(AtLatestReloads)

\* C8 as amended: for a format without %s, LC_ALL as it was at the latest
\* set_locale() and TZ as it was at the latest activation of the zone
\* (tzset(), or an earlier formatting call with %s) decide the text.
C8_LatestActivationDecides ==
    (/\ Formatted
     /\ call.outcome = "ok"
     /\ act.lc # "none"
     /\ act.tz # "none"
     /\ ~HasConv(call.format, 115)) =>
        call.text = TextUnder([AtLatestReloads EXCEPT !.tz = act.zone, !.envTZ = act.zone])

C8_Witness ==
    /\ Formatted
    /\ call.format = F_c
    /\ call.outcome = "ok"
    /\ act.lc = "fr_BE.UTF-8"
    /\ act.tz = "Europe/Brussels"
    /\ envLC = "en_US.UTF-8"
    /\ envTZ = "UTC"
    /\ reloads.lc = 0
    /\ reloads.tz = 0

\* C9: the record a call returns is what the C routine stores into a zeroed
\* record for the argument and the state at the call, and the text is what
\* the formatter makes of that record, the format and that state: nothing
\* of an earlier call enters.
C9_CallsAreStateless ==
    /\ call.op \in {"get_local_tm_from_epoch", "strftime_local"} =>
         call.tm = c_localtime_r(call.epoch, ZeroTm, call.g0).tm
    /\ call.op \in {"get_gmt_tm_from_epoch", "strftime_gmt"} =>
         call.tm = c_gmtime_r(call.epoch, ZeroTm, call.g0).tm
    /\ Formatted =>
         LET tm == IF call.op = "strftime_local"
                   THEN c_localtime_r(call.epoch, ZeroTm, call.g0).tm
                   ELSE c_gmtime_r(call.epoch, ZeroTm, call.g0).tm
             r  == strftime(call.format, tm, G1)
         IN  <<call.outcome, call.text, call.l, call.fcalls>>
               = <<r.outcome, r.text, r.l, r.fcalls>>

C9_Witness ==
    /\ call.op = "strftime_gmt"
    /\ call.outcome = "ok"
    /\ call.epoch = EPOCH
    /\ call.g0.tz # Uninit
    /\ act.tz = "none"

Reloading == {"set_locale", "tzset"}

\* C10: the library holds no lock: with callers that do not serialize, a
\* thread can enter any call while another thread is inside a reload, and
\* a formatting call then reads a locale or zone that is being mutated.
\* With callers that serialize (one lock around every call, or both reloads
\* done before the workers start), no call overlaps a reload and every
\* formatting call reads a locale and a zone that a finished activation
\* left.
C10_RaceUnlessCallersSerialize ==
    /\ \A t \in Threads, u \in Threads :
         (discipline = "none" /\ pc[t] = "idle" /\ pc[u] \in Reloading) =>
             /\ ENABLED EnterFormat(t)
             /\ ENABLED EnterSetLocale(t)
             /\ ENABLED EnterTzset(t)
    /\ discipline # "none" =>
         /\ \A t \in Threads : \A u \in Threads \ {t} :
              ~(pc[t] \in Reloading /\ pc[u] # "idle")
         /\ \A t \in Threads :
              seen[t] # NoSeen =>
                  /\ seen[t].locale \in Locales
                  /\ seen[t].tz \in EnvZones

C10_Witness ==
    /\ discipline = "none"
    /\ \E t \in Threads, u \in Threads :
         /\ pc[t] = "format"
         /\ pc[u] = "set_locale"
         /\ seen[t].locale = "torn"

=============================================================================
